---- MODULE Spec2Model ----
(***************************************************************************)
(* Connection lifecycle, request gate and one-time seeding of the HMS      *)
(* Finance backend (src/server/index.js).  The file holds two variants of  *)
(* the server:                                                             *)
(*   "serverless"  (lines 1-308): connectDB is called by the gate on every *)
(*                 /api request, caches the connection in cachedDb and     *)
(*                 seeds once, guarded by isSeeded;                        *)
(*   "longrunning" (lines 309-609): connectDB is called at start-up and by *)
(*                 a 5 s timer after a failure, the gate only reads the    *)
(*                 flag isDbConnected kept by connection notifications.    *)
(* JavaScript runs every callback to its next await without interruption,  *)
(* so one action is the code between two awaits.  The callbacks the gate    *)
(* chains to connectDB (.then(() => next()), .catch) touch nothing but the  *)
(* request they answer and are part of the step that settles connectDB.    *)
(***************************************************************************)
EXTENDS Integers, Sequences, FiniteSets, TLC

VARIABLES
    variant,        \* which of the two server variants this process runs
    storeUp,        \* environment: the MongoDB deployment is reachable
    readyState,     \* mongoose.connection.readyState (0 disconnected, 1 connected)
    cachedDb,       \* serverless: cachedDb is set (non-null)
    isSeeded,       \* serverless: the isSeeded flag
    isDbConnected,  \* long-running: the isDbConnected flag
    auth,           \* the Auth collection: role -> sequence of <<username, password>>
    req,            \* the requests in flight, one record per slot
    boot,           \* long-running: position of the start-up connectDB chain
                    \* (pc) and whether the retry timer has fired (retried)
    bg,             \* long-running: position of the un-awaited seedAuth() run
    seedStarts,     \* number of calls of seedAuth
    everConnected   \* some mongoose.connect call has resolved

vars == <<variant, storeUp, readyState, cachedDb, isSeeded, isDbConnected, auth,
          req, boot, bg, seedStarts, everConnected>>

----------------------------------------------------------------------------
(* Bounds of the model *)

\* request slots: two requests can be in flight at once, which is what the
\* claims about overlapping requests speak of
Reqs == {1, 2}

----------------------------------------------------------------------------
(* Program constants *)

\* mongoose.connection.readyState === 1 means "connected"
Connected == 1
Disconnected == 0

Variants == {"serverless", "longrunning"}

\* the order in which seedAuth handles the roles
Roles == <<"admin", "user", "assistant">>
RoleSet == {"admin", "user", "assistant"}
NRoles == 3

\* the fixed default credentials seedAuth creates
DefaultCreds(role) ==
    CASE role = "admin"     -> <<"Raiha Iman", "admin">>
      [] role = "user"      -> <<"user", "password">>
      [] role = "assistant" -> <<"assi", "assi">>

\* credentials of a record that existed before the process started
CustomCreds == <<"custom", "secret">>
\* the credentials of a record somebody rewrote through PUT /api/auth/update
UpdateCreds == <<"renamed", "changed">>
\* the bodies a PUT /api/auth/update request carries: a username with a
\* password, or with an empty password
UpdateBodies == {[username |-> "custom", password |-> "secret"],
                 [username |-> "custom", password |-> ""]}
\* the bodies a POST /api/auth/reset-admin request carries
ResetBodies == {[confirmedUsername |-> "custom", newPassword |-> "secret"]}

\* the request paths the model distinguishes
Routes == {"health", "update", "reset", "unknown"}
\* the roles a PUT /api/auth/update request names in its body
UpdateRoles == {"admin"}

----------------------------------------------------------------------------
(* The Auth collection *)

None == <<>>

\* Auth.findOne({ role }): the first record of the role, or null
FindOne(store, role) ==
    IF store[role] = <<>> THEN None ELSE Head(store[role])

\* Auth.create({ role, username, password }): one more record
Create(store, role, creds) ==
    [store EXCEPT ![role] = Append(@, creds)]

\* const update = { username }; if (password) update.password = password:
\* what the update makes of a record
Update(creds, username, password) ==
    <<username, IF password # "" THEN password ELSE creds[2]>>

\* Auth.findOneAndUpdate({ role }, update): the fields the update names are
\* rewritten in the first record of the role; nothing is inserted when there
\* is none
FindOneAndUpdate(store, role, username, password) ==
    IF store[role] = <<>> THEN store
    ELSE [store EXCEPT ![role] =
            <<Update(Head(@), username, password)>> \o Tail(@)]

\* Auth.findOne({ role, username }): the position of the first record of the
\* role with that username, 0 when there is none (null)
FindOneByUsername(store, role, username) ==
    LET hits == {i \in 1..Len(store[role]) : store[role][i][1] = username}
    IN  IF hits = {} THEN 0
        ELSE CHOOSE i \in hits : \A j \in hits : i <= j

\* admin.password = newPassword; await admin.save(): the password of the
\* document that was found is rewritten, its other fields are not sent
Save(store, role, doc, password) ==
    [store EXCEPT ![role][doc] = <<@[1], password>>]

\* whether Auth.create throws because the role already has a record: the Auth
\* schema is a plain document with no uniqueness constraint on role
DuplicateKey(store, role) == FALSE

\* if (!x) await Auth.create(...): the check of one role
MissingAlways(found) == TRUE
Missing(found) == found = None

\* where seedAuth goes after the role k: the next role, or the end
NextRole(k) ==
    IF k < NRoles THEN [pc |-> "findOne", k |-> k + 1]
    ELSE [pc |-> "end", k |-> k]

\* where seedAuth goes when the findOne of role k has answered
AfterFindOne(found, k) ==
    IF Missing(found) THEN [pc |-> "create", k |-> k] ELSE NextRole(k)

----------------------------------------------------------------------------
(* connectDB and the gate, serverless variant *)

\* if (cachedDb && mongoose.connection.readyState === 1)
IsCachedStale(c, rs) == c
IsCachedNever(c, rs) == FALSE
IsCached(c, rs) == c /\ rs = Connected

\* if (!isSeeded)
NeedsSeedAlways(seeded) == TRUE
NeedsSeed(seeded) == ~seeded

\* the catch of connectDB: cachedDb = null; isSeeded is not touched
CatchResetsSeeded(c, seeded) == [cachedDb |-> FALSE, isSeeded |-> FALSE]
CatchConnectError(c, seeded) == [cachedDb |-> FALSE, isSeeded |-> seeded]

\* a request slot nobody uses.  pc is where the request stands, k the role its
\* seedAuth run is at, status and body the response; the rest records what
\* happened to the request: gate is what the gate did ("fast": cached
\* connection, "tried": mongoose.connect pending, "ok": connected, "seeded":
\* connected and called seedAuth, "fail": connect failed, "open" / "closed":
\* the long-running gate), ran that a route handler ran, seedErr that its
\* seedAuth threw;
\* error is the error string of the response body, cause the message of the
\* error mongoose.connect rejected with; doc is the position of the document
\* the reset-admin handler holds; overlap records that another seedAuth run
\* was in progress during the seedAuth run of this request
Idle ==
    [pc |-> "idle", route |-> "none", k |-> 0, status |-> 0, body |-> "none",
     error |-> "", cause |-> "", gate |-> "none", ran |-> FALSE,
     seedErr |-> FALSE, doc |-> 0, overlap |-> FALSE]

\* next(): express runs the handler registered for the path up to its first
\* await: GET /api/health answers { status: 'ok', ... }, PUT /api/auth/update
\* and POST /api/auth/reset-admin wait for their query, any other path falls
\* to the 404 handler
DispatchUnknownToErrorHandler(q) ==
    CASE q.route = "health"  -> [q EXCEPT !.pc = "done", !.status = 200,
                                          !.body = "status ok", !.ran = TRUE]
      [] q.route = "update"  -> [q EXCEPT !.pc = "handler", !.ran = TRUE]
      [] q.route = "reset"   -> [q EXCEPT !.pc = "resetFind", !.ran = TRUE]
      [] q.route = "unknown" -> [q EXCEPT !.pc = "done", !.status = 500,
                                          !.body = "error",
                                          !.error = "Internal Server Error"]
Dispatch(q) ==
    CASE q.route = "health"  -> [q EXCEPT !.pc = "done", !.status = 200,
                                          !.body = "status ok", !.ran = TRUE]
      [] q.route = "update"  -> [q EXCEPT !.pc = "handler", !.ran = TRUE]
      [] q.route = "reset"   -> [q EXCEPT !.pc = "resetFind", !.ran = TRUE]
      [] q.route = "unknown" -> [q EXCEPT !.pc = "done", !.status = 404,
                                          !.body = "error",
                                          !.error = "API Endpoint Not Found"]

\* the reasons mongoose.connect rejects with
Causes == {"ECONNREFUSED", "ETIMEDOUT"}

\* throw new Error('Database connection failed.'): what connectDB throws when
\* mongoose.connect rejected with the error message cause
ConnectionErrorKeepsCause(cause) == cause
ConnectionError(cause) == "Database connection failed."

\* error.message || 'Database disconnected'
GateMessage(message) == IF message # "" THEN message ELSE "Database disconnected"

\* res.status(503).json({ error: ... }): the gate answers, next() is not called
RejectCallsNext(q) == Dispatch(q)
RejectRetries(q) == [q EXCEPT !.pc = "connecting", !.gate = "retried"]
Reject(q) == [q EXCEPT !.pc = "done", !.status = 503, !.body = "error"]

\* connectDB goes on after "await seedAuth()": isSeeded = true, return, and
\* the gate calls next().  seedAuth's catch has logged an error and returned,
\* so this is also what follows a run that threw
SeedErrorLeavesUnseeded(q, c, seeded) ==
    [req |-> Dispatch(q), cachedDb |-> c,
     isSeeded |-> IF q.seedErr THEN seeded ELSE TRUE]
SeedErrorRethrown(q, c, seeded) ==
    IF q.seedErr
    THEN [req |-> Reject(q), cachedDb |-> FALSE, isSeeded |-> seeded]
    ELSE [req |-> Dispatch(q), cachedDb |-> c, isSeeded |-> TRUE]
AfterSeedAuth(q, c, seeded) ==
    [req |-> Dispatch(q), cachedDb |-> c, isSeeded |-> TRUE]

\* a continuation of connectDB is waiting for its turn: seedAuth has returned
\* and "await seedAuth()" has not resumed yet.  It resumes before the event
\* loop takes the next request; what can run first are continuations of the
\* requests already in flight
Resuming == \E s \in Reqs : req[s].pc = "end"

\* a request to /api/<route> arrives: checkDbConnection calls connectDB, which
\* returns at once on the cached connection or calls mongoose.connect and waits
SArrive(r, route) ==
    /\ variant = "serverless"
    /\ req[r].pc = "idle"
    /\ ~Resuming
    /\ \A s \in Reqs : s < r => req[s].pc # "idle"
    /\ LET q0 == [Idle EXCEPT !.route = route]
           cached == IsCached(cachedDb, readyState)
       IN  req' = [req EXCEPT ![r] =
                     IF cached THEN Dispatch([q0 EXCEPT !.gate = "fast"])
                     ELSE [q0 EXCEPT !.pc = "connecting", !.gate = "tried"]]
    /\ UNCHANGED <<variant, storeUp, readyState, cachedDb, isSeeded, isDbConnected,
                   auth, boot, bg, seedStarts, everConnected>>

\* mongoose.connect resolves: cachedDb = db.connection, then seedAuth is called
\* when isSeeded is still false, else connectDB returns and the gate calls next()
SConnectResolve(r) ==
    /\ variant = "serverless"
    /\ req[r].pc = "connecting"
    /\ storeUp
    /\ readyState' = Connected
    /\ cachedDb' = TRUE
    /\ everConnected' = TRUE
    /\ LET q == [req[r] EXCEPT !.gate = "ok"]
           running == {s \in Reqs : req[s].pc \in {"findOne", "create"}}
       IN  IF NeedsSeed(isSeeded)
           THEN /\ seedStarts' = seedStarts + 1
                /\ req' = [s \in Reqs |->
                             IF s = r
                             THEN [q EXCEPT !.pc = "findOne", !.k = 1,
                                            !.gate = "seeded",
                                            !.overlap = running # {}]
                             ELSE IF s \in running
                                  THEN [req[s] EXCEPT !.overlap = TRUE]
                                  ELSE req[s]]
           ELSE /\ seedStarts' = seedStarts
                /\ req' = [req EXCEPT ![r] = Dispatch(q)]
    /\ UNCHANGED <<variant, storeUp, isSeeded, isDbConnected, auth, boot, bg>>

\* mongoose.connect rejects: the catch clears cachedDb and throws, the gate
\* answers 503
SConnectReject(r) ==
    /\ variant = "serverless"
    /\ req[r].pc = "connecting"
    /\ ~storeUp
    /\ LET c == CatchConnectError(cachedDb, isSeeded)
       IN  /\ cachedDb' = c.cachedDb
           /\ isSeeded' = c.isSeeded
    /\ \E cause \in Causes :
         req' = [req EXCEPT ![r] =
                   Reject([req[r] EXCEPT !.gate = "fail", !.cause = cause,
                              !.error = GateMessage(ConnectionError(cause))])]
    /\ UNCHANGED <<variant, storeUp, readyState, isDbConnected, auth, boot, bg,
                   seedStarts, everConnected>>

\* await Auth.findOne({ role }) answers for the role the run is at: seedAuth
\* goes on to the create, to the next role, or returns
SFindOne(r) ==
    /\ variant = "serverless"
    /\ req[r].pc = "findOne"
    /\ storeUp
    /\ LET nx == AfterFindOne(FindOne(auth, Roles[req[r].k]), req[r].k)
       IN  req' = [req EXCEPT ![r] = [@ EXCEPT !.pc = nx.pc, !.k = nx.k]]
    /\ UNCHANGED <<variant, storeUp, readyState, cachedDb, isSeeded, isDbConnected,
                   auth, boot, bg, seedStarts, everConnected>>

\* await Auth.create({ role, ... }) answers: the record is in the collection;
\* seedAuth goes on to the next role or returns
SCreate(r) ==
    /\ variant = "serverless"
    /\ req[r].pc = "create"
    /\ storeUp
    /\ ~DuplicateKey(auth, Roles[req[r].k])
    /\ auth' = Create(auth, Roles[req[r].k], DefaultCreds(Roles[req[r].k]))
    /\ LET nx == NextRole(req[r].k)
       IN  req' = [req EXCEPT ![r] = [@ EXCEPT !.pc = nx.pc, !.k = nx.k]]
    /\ UNCHANGED <<variant, storeUp, readyState, cachedDb, isSeeded, isDbConnected,
                   boot, bg, seedStarts, everConnected>>

\* a findOne or create of seedAuth throws (the store is unreachable): the
\* catch logs the error and seedAuth returns
SSeedThrow(r) ==
    /\ variant = "serverless"
    /\ req[r].pc \in {"findOne", "create"}
    /\ \/ ~storeUp
       \/ req[r].pc = "create" /\ DuplicateKey(auth, Roles[req[r].k])
    /\ req' = [req EXCEPT ![r] = [@ EXCEPT !.pc = "end", !.seedErr = TRUE]]
    /\ UNCHANGED <<variant, storeUp, readyState, cachedDb, isSeeded, isDbConnected,
                   auth, boot, bg, seedStarts, everConnected>>

\* "await seedAuth()" resumes after seedAuth has returned: isSeeded = true,
\* connectDB returns and the gate calls next()
SSeedEnd(r) ==
    /\ variant = "serverless"
    /\ req[r].pc = "end"
    /\ LET a == AfterSeedAuth(req[r], cachedDb, isSeeded)
       IN  /\ req' = [req EXCEPT ![r] = a.req]
           /\ cachedDb' = a.cachedDb
           /\ isSeeded' = a.isSeeded
    /\ UNCHANGED <<variant, storeUp, readyState, isDbConnected, auth, boot, bg,
                   seedStarts, everConnected>>

----------------------------------------------------------------------------
(* Route handlers, both variants *)

\* PUT /api/auth/update: await Auth.findOneAndUpdate({ role }, update) answers,
\* 200 { success: true }, or 500 when the query throws
Handler(r) ==
    /\ req[r].pc = "handler"
    /\ \E role \in UpdateRoles, b \in UpdateBodies :
         IF storeUp
         THEN /\ auth' = FindOneAndUpdate(auth, role, b.username, b.password)
              /\ req' = [req EXCEPT ![r] = [@ EXCEPT !.pc = "done", !.status = 200,
                                                      !.body = "success"]]
         ELSE /\ auth' = auth
              /\ req' = [req EXCEPT ![r] = [@ EXCEPT !.pc = "done", !.status = 500,
                                                      !.body = "error",
                                                      !.error = "query failed"]]
    /\ UNCHANGED <<variant, storeUp, readyState, cachedDb, isSeeded, isDbConnected,
                   boot, bg, seedStarts, everConnected>>

\* POST /api/auth/reset-admin: await Auth.findOne({ role: 'admin', username:
\* confirmedUsername }) answers; the handler goes on to save the document, or
\* answers 200 { success: false } when there is none, or 500 when the query
\* throws
ResetFindOne(r) ==
    /\ req[r].pc = "resetFind"
    /\ \E b \in ResetBodies :
         LET doc == FindOneByUsername(auth, "admin", b.confirmedUsername)
         IN  req' = [req EXCEPT ![r] =
                       IF ~storeUp
                       THEN [@ EXCEPT !.pc = "done", !.status = 500,
                                      !.body = "error", !.error = "query failed"]
                       ELSE IF doc # 0
                       THEN [@ EXCEPT !.pc = "resetSave", !.doc = doc]
                       ELSE [@ EXCEPT !.pc = "done", !.status = 200,
                                      !.body = "success false"]]
    /\ UNCHANGED <<variant, storeUp, readyState, cachedDb, isSeeded, isDbConnected,
                   auth, boot, bg, seedStarts, everConnected>>

\* POST /api/auth/reset-admin: await admin.save() answers, 200 { success:
\* true }, or 500 when it throws
ResetSave(r) ==
    /\ req[r].pc = "resetSave"
    /\ \E b \in ResetBodies :
         IF storeUp
         THEN /\ auth' = Save(auth, "admin", req[r].doc, b.newPassword)
              /\ req' = [req EXCEPT ![r] = [@ EXCEPT !.pc = "done", !.status = 200,
                                                      !.body = "success"]]
         ELSE /\ auth' = auth
              /\ req' = [req EXCEPT ![r] = [@ EXCEPT !.pc = "done", !.status = 500,
                                                      !.body = "error",
                                                      !.error = "query failed"]]
    /\ UNCHANGED <<variant, storeUp, readyState, cachedDb, isSeeded, isDbConnected,
                   boot, bg, seedStarts, everConnected>>

\* the route handlers that wait for a query
Handlers(r) ==
    \/ Handler(r)
    \/ ResetFindOne(r)
    \/ ResetSave(r)

\* the response has been sent; the slot is free for another request
Reply(r) ==
    /\ req[r].pc = "done"
    /\ req' = [req EXCEPT ![r] = Idle]
    /\ UNCHANGED <<variant, storeUp, readyState, cachedDb, isSeeded, isDbConnected,
                   auth, boot, bg, seedStarts,
                   everConnected>>

----------------------------------------------------------------------------
(* The environment: the store and the notifications of the driver *)

StoreGoesDown ==
    /\ storeUp
    /\ storeUp' = FALSE
    /\ UNCHANGED <<variant, readyState, cachedDb, isSeeded, isDbConnected, auth,
                   req, boot, bg, seedStarts,
                   everConnected>>

StoreComesUp ==
    /\ ~storeUp
    /\ storeUp' = TRUE
    /\ UNCHANGED <<variant, readyState, cachedDb, isSeeded, isDbConnected, auth,
                   req, boot, bg, seedStarts,
                   everConnected>>

\* mongoose.connection.on('disconnected', ...): isDbConnected = false
OnDisconnectedKeeps(flag) == flag
OnDisconnected(flag) == FALSE

\* mongoose.connection.on('reconnected', ...): isDbConnected = true
OnReconnected(flag) == TRUE

\* the driver notices that the connection is lost
NotifyDisconnected ==
    /\ readyState = Connected
    /\ ~storeUp
    /\ readyState' = Disconnected
    /\ isDbConnected' = IF variant = "longrunning"
                        THEN OnDisconnected(isDbConnected) ELSE isDbConnected
    /\ UNCHANGED <<variant, storeUp, cachedDb, isSeeded, auth, req, boot, bg,
                   seedStarts, everConnected>>

\* the driver re-establishes a connection it had lost
NotifyReconnected ==
    /\ readyState = Disconnected
    /\ everConnected
    /\ storeUp
    /\ readyState' = Connected
    /\ isDbConnected' = IF variant = "longrunning"
                        THEN OnReconnected(isDbConnected) ELSE isDbConnected
    /\ UNCHANGED <<variant, storeUp, cachedDb, isSeeded, auth, req, boot, bg,
                   seedStarts, everConnected>>

----------------------------------------------------------------------------
(* connectDB, seedAuth and the gate, long-running variant *)

NoSeed == [pc |-> "none", k |-> 0]

\* the start-up chain of a process that has none
NoBoot == [pc |-> "none", retried |-> FALSE]

\* the catch of connectDB: setTimeout(connectDB, 5000), the chain waits for
\* the timer
AfterConnectFailureGivesUp == "failed"
AfterConnectFailure == "timer"

\* if (!isDbConnected) return res.status(503)...; next()
GateOpen(flag) == flag

\* a request to /api/<route> arrives: checkDbConnection reads isDbConnected
LArrive(r, route) ==
    /\ variant = "longrunning"
    /\ req[r].pc = "idle"
    /\ \A s \in Reqs : s < r => req[s].pc # "idle"
    /\ LET q0 == [Idle EXCEPT !.route = route]
       IN  req' = [req EXCEPT ![r] =
                     IF GateOpen(isDbConnected)
                     THEN Dispatch([q0 EXCEPT !.gate = "open"])
                     ELSE Reject([q0 EXCEPT !.gate = "closed",
                                            !.error = "Database disconnected"])]
    /\ UNCHANGED <<variant, storeUp, readyState, cachedDb, isSeeded, isDbConnected,
                   auth, boot, bg, seedStarts, everConnected>>

\* await mongoose.connect(MONGO_URI) resolves: isDbConnected = true; seedAuth()
\* is called and not awaited
LConnectResolve ==
    /\ variant = "longrunning"
    /\ boot.pc = "connecting"
    /\ storeUp
    /\ readyState' = Connected
    /\ everConnected' = TRUE
    /\ isDbConnected' = TRUE
    /\ boot' = [boot EXCEPT !.pc = "up"]
    /\ seedStarts' = seedStarts + 1
    /\ bg' = [pc |-> "findOne", k |-> 1]
    /\ UNCHANGED <<variant, storeUp, cachedDb, isSeeded, auth, req>>

\* await mongoose.connect(MONGO_URI) rejects: isDbConnected = false;
\* setTimeout(connectDB, 5000)
LConnectReject ==
    /\ variant = "longrunning"
    /\ boot.pc = "connecting"
    /\ ~storeUp
    /\ isDbConnected' = FALSE
    /\ boot' = [boot EXCEPT !.pc = AfterConnectFailure]
    /\ UNCHANGED <<variant, storeUp, readyState, cachedDb, isSeeded, auth, req, bg,
                   seedStarts, everConnected>>

\* the 5 s timer fires: connectDB runs again and calls mongoose.connect
LTimer ==
    /\ variant = "longrunning"
    /\ boot.pc = "timer"
    /\ boot' = [pc |-> "connecting", retried |-> TRUE]
    /\ UNCHANGED <<variant, storeUp, readyState, cachedDb, isSeeded, isDbConnected,
                   auth, req, bg, seedStarts, everConnected>>

\* the background seedAuth run: await Auth.findOne({ role }) answers
LFindOne ==
    /\ variant = "longrunning"
    /\ bg.pc = "findOne"
    /\ storeUp
    /\ bg' = AfterFindOne(FindOne(auth, Roles[bg.k]), bg.k)
    /\ UNCHANGED <<variant, storeUp, readyState, cachedDb, isSeeded, isDbConnected,
                   auth, req, boot, seedStarts,
                   everConnected>>

\* the background seedAuth run: await Auth.create({ role, ... }) answers
LCreate ==
    /\ variant = "longrunning"
    /\ bg.pc = "create"
    /\ storeUp
    /\ ~DuplicateKey(auth, Roles[bg.k])
    /\ auth' = Create(auth, Roles[bg.k], DefaultCreds(Roles[bg.k]))
    /\ bg' = NextRole(bg.k)
    /\ UNCHANGED <<variant, storeUp, readyState, cachedDb, isSeeded, isDbConnected,
                   req, boot, seedStarts, everConnected>>

\* the background seedAuth run: a findOne or create throws, the catch logs it
LSeedThrow ==
    /\ variant = "longrunning"
    /\ bg.pc \in {"findOne", "create"}
    /\ \/ ~storeUp
       \/ bg.pc = "create" /\ DuplicateKey(auth, Roles[bg.k])
    /\ bg' = [pc |-> "end", k |-> bg.k]
    /\ UNCHANGED <<variant, storeUp, readyState, cachedDb, isSeeded, isDbConnected,
                   auth, req, boot, seedStarts,
                   everConnected>>

----------------------------------------------------------------------------
(* The process *)

\* the Auth collections a process may find: empty, a record for admin that
\* somebody created earlier, or such a record for every role
InitStores ==
    { [role \in RoleSet |-> <<>>],
      [role \in RoleSet |-> IF role = "admin" THEN <<CustomCreds>> ELSE <<>>],
      [role \in RoleSet |-> <<CustomCreds>>] }

\* the state when the module has been loaded: the serverless variant has done
\* nothing yet, the long-running one has called connectDB() (line 348)
Init ==
    /\ variant \in Variants
    /\ storeUp \in BOOLEAN
    /\ readyState = Disconnected
    /\ cachedDb = FALSE
    /\ isSeeded = FALSE
    /\ isDbConnected = FALSE
    /\ auth \in InitStores
    /\ req = [r \in Reqs |-> Idle]
    /\ boot = IF variant = "longrunning" THEN [NoBoot EXCEPT !.pc = "connecting"]
              ELSE NoBoot
    /\ bg = NoSeed
    /\ seedStarts = 0
    /\ everConnected = FALSE

Environment ==
    \/ StoreGoesDown
    \/ StoreComesUp
    \/ NotifyDisconnected
    \/ NotifyReconnected

Serverless(r) ==
    \/ SConnectResolve(r)
    \/ SConnectReject(r)
    \/ SFindOne(r)
    \/ SCreate(r)
    \/ SSeedThrow(r)
    \/ SSeedEnd(r)

LongRunning ==
    \/ LConnectResolve
    \/ LConnectReject
    \/ LTimer
    \/ LFindOne
    \/ LCreate
    \/ LSeedThrow

Next ==
    \/ \E r \in Reqs, route \in Routes : SArrive(r, route)
    \/ \E r \in Reqs, route \in Routes : LArrive(r, route)
    \/ \E r \in Reqs : Serverless(r)
    \/ \E r \in Reqs : Handlers(r)
    \/ \E r \in Reqs : Reply(r)
    \/ LongRunning
    \/ Environment

Spec == Init /\ [][Next]_vars

----------------------------------------------------------------------------
(* Requests handled one after another: a request arrives only when no other
   request is in flight *)

SeqArrive(r, route) ==
    /\ \A s \in Reqs : req[s].pc = "idle"
    /\ (SArrive(r, route) \/ LArrive(r, route))

SeqNext ==
    \/ \E r \in Reqs, route \in Routes : SeqArrive(r, route)
    \/ \E r \in Reqs : Serverless(r)
    \/ \E r \in Reqs : Handlers(r)
    \/ \E r \in Reqs : Reply(r)
    \/ LongRunning
    \/ Environment

SeqSpec == Init /\ [][SeqNext]_vars

----------------------------------------------------------------------------------------------------------------------------------------------
(* seedAuth on every small collection: instances of the serverless function
   loaded one after the other on the same store, each of which seeds on its
   first connection; the store stays reachable *)

\* records per role in the collection the first instance finds
MaxInitRecs == 2
\* calls of seedAuth after which no further instance is loaded
MaxSeedRuns == 2

\* the sequences over S of length at most n
RECURSIVE SeqsUpTo(_, _)
SeqsUpTo(S, n) ==
    IF n = 0 THEN {<<>>}
    ELSE LET shorter == SeqsUpTo(S, n - 1)
         IN  shorter \cup {Append(t, x) : t \in shorter, x \in S}

SeedStores == [RoleSet -> SeqsUpTo({CustomCreds, UpdateCreds}, MaxInitRecs)]

\* the paths requested of these instances
SeedRoutes == {"health"}

SeedInit ==
    /\ variant = "serverless"
    /\ storeUp = TRUE
    /\ readyState = Disconnected
    /\ cachedDb = FALSE
    /\ isSeeded = FALSE
    /\ isDbConnected = FALSE
    /\ auth \in SeedStores
    /\ req = [r \in Reqs |-> Idle]
    /\ boot = NoBoot
    /\ bg = NoSeed
    /\ seedStarts = 0
    /\ everConnected = FALSE

\* the instance is gone and the module is loaded anew: let cachedDb = null,
\* let isSeeded = false, no connection; the store keeps its records
ColdStart ==
    /\ variant = "serverless"
    /\ isSeeded
    /\ \A r \in Reqs : req[r].pc = "idle"
    /\ seedStarts < MaxSeedRuns
    /\ cachedDb' = FALSE
    /\ isSeeded' = FALSE
    /\ readyState' = Disconnected
    /\ everConnected' = FALSE
    /\ UNCHANGED <<variant, storeUp, isDbConnected, auth, req, boot, bg, seedStarts>>

SeedNext ==
    \/ \E r \in Reqs, route \in SeedRoutes : SArrive(r, route)
    \/ \E r \in Reqs : SConnectResolve(r)
    \/ \E r \in Reqs : SFindOne(r)
    \/ \E r \in Reqs : SCreate(r)
    \/ \E r \in Reqs : SSeedEnd(r)
    \/ \E r \in Reqs : Reply(r)
    \/ ColdStart

SeedSpec == SeedInit /\ [][SeedNext]_vars

----------------------------------------------------------------------------
(* Properties *)

\* the step is the arrival of a request in slot r
Arrives(r) == req[r].pc = "idle" /\ req'[r].pc # "idle"

\* the step starts a connection attempt (a call of mongoose.connect) for slot r
AttemptStarts(r) == req'[r].pc = "connecting" /\ req'[r] # req[r]

\* the step starts a connection attempt of the start-up chain
BootAttemptStarts == boot'.pc = "connecting" /\ boot.pc # "connecting"

\* C1 as stated: a request that arrives while the store is unreachable is
\* answered 503 with an error body and no route handler runs for it, also when
\* the local ready indication has not been updated yet.  Stated for the step
\* in which the request arrives: the gate starts no route handler, and when it
\* answers at once, it answers 503.
C1_UnreachableAlways503 ==
    [][\A r \in Reqs :
          (Arrives(r) /\ ~storeUp) =>
              /\ ~req'[r].ran
              /\ req'[r].pc = "done"
                    => (req'[r].status = 503 /\ req'[r].body = "error")]_vars

\* C1 amended: a request the gate turns down (serverless: its connection
\* attempt failed; long-running: isDbConnected was false) is answered 503 with
\* an error body, and no route handler runs for it.
C1_GateRejects503 ==
    \A r \in Reqs :
        req[r].gate \in {"fail", "closed"} =>
            /\ req[r].pc = "done"
            /\ req[r].status = 503
            /\ req[r].body = "error"
            /\ ~req[r].ran

\* C1 witness: with the store unreachable, an update request has been turned
\* down after its connection attempt failed
C1_Witness ==
    /\ ~storeUp
    /\ \E r \in Reqs :
          /\ req[r].gate = "fail"
          /\ req[r].route = "update"
          /\ req[r].status = 503

\* C2: with requests handled one after another, seedAuth is started at most
\* once, and it has been started exactly when some connection attempt has
\* succeeded (the first success starts it, no later one does).
C2_SeedStartedOnce ==
    /\ seedStarts <= 1
    /\ everConnected <=> seedStarts = 1

\* C2 witness: a later request has connected anew (after the connection was
\* lost) without calling seedAuth again
C2_Witness ==
    /\ seedStarts = 1
    /\ \E r \in Reqs : req[r].gate = "ok" /\ req[r].pc = "done"

\* C3: seedAuth is create-if-absent and idempotent when its runs do not
\* overlap.  No step changes or removes a record; a record is added only with
\* the default credentials of its role, and, by a run no other run overlapped,
\* only to a role that has none; when a run has ended every role has a record;
\* so a run that starts after a complete one, not overlapped, changes nothing.
C3_CreateIfAbsent ==
    /\ [][LET expected == [admin     |-> <<"Raiha Iman", "admin">>,
                           user      |-> <<"user", "password">>,
                           assistant |-> <<"assi", "assi">>]
          IN  \A role \in RoleSet :
                 auth'[role] # auth[role] =>
                    /\ auth'[role] = Append(auth[role], expected[role])
                    /\ \/ auth[role] = <<>>
                       \/ \E r \in Reqs : req[r].pc = "create" /\ req[r].overlap]_vars
    /\ [](\A r \in Reqs :
            (req[r].gate = "seeded" /\ req[r].pc = "done")
                => \A role \in RoleSet : auth[role] # <<>>)
    /\ [][((\A role \in RoleSet : auth[role] # <<>>)
             /\ (\A r \in Reqs : ~req[r].overlap)) => auth' = auth]_vars

\* C3 witness: the second run, not overlapped, has ended; the two records admin had are as they were and user, which had
\* none, has the one default record
C3_Witness ==
    /\ seedStarts = 2
    /\ \E r \in Reqs :
          req[r].gate = "seeded" /\ req[r].pc = "done" /\ ~req[r].overlap
    /\ auth["admin"] = <<CustomCreds, UpdateCreds>>
    /\ auth["user"] = << <<"user", "password">> >>

\* C4 as stated: in both variants a request that arrives after a connection
\* was established and then reported lost starts a connection attempt.
C4_ReconnectBothVariants ==
    [][\A r \in Reqs :
          (Arrives(r) /\ everConnected /\ readyState = Disconnected)
              => AttemptStarts(r)]_vars

\* C4 amended: in the serverless variant a request that arrives after a
\* connection was established and then reported lost starts a connection
\* attempt (it is not answered from the stale cachedDb).
C4_ReconnectServerless ==
    [][\A r \in Reqs :
          (Arrives(r) /\ variant = "serverless" /\ everConnected
                      /\ readyState = Disconnected)
              => AttemptStarts(r)]_vars

\* C4 witness: cachedDb is still set, the connection is reported lost, and a
\* request is waiting for mongoose.connect
C4_Witness ==
    /\ variant = "serverless"
    /\ cachedDb
    /\ everConnected
    /\ readyState = Disconnected
    /\ \E r \in Reqs : req[r].pc = "connecting"

\* C5: a connectDB call that finds cachedDb set and readyState 1 starts no
\* connection attempt and no seedAuth, leaves cachedDb and isSeeded as they
\* are, and the gate calls next().
C5_WarmFastPath ==
    [][\A r \in Reqs :
          (Arrives(r) /\ variant = "serverless" /\ cachedDb
                      /\ readyState = Connected)
              => /\ ~AttemptStarts(r)
                 /\ seedStarts' = seedStarts
                 /\ cachedDb' = cachedDb
                 /\ isSeeded' = isSeeded
                 /\ req'[r] = Dispatch([Idle EXCEPT !.route = req'[r].route,
                                                    !.gate = "fast"])]_vars

\* C5 witness: a request has been let through on the cached connection
C5_Witness ==
    \E r \in Reqs : req[r].gate = "fast" /\ req[r].pc = "done" /\ req[r].status = 200

\* C6: a request whose seedAuth run threw is still let through.  The step in
\* which the error is caught ends the run and leaves cachedDb as it is; when
\* connectDB resumes it keeps cachedDb, sets isSeeded and the gate calls
\* next(); the request is never answered 503 and isSeeded is true from then
\* on.
C6_SeedErrorSwallowed ==
    /\ [](\A r \in Reqs :
            req[r].seedErr =>
                /\ req[r].gate = "seeded"
                /\ req[r].status # 503
                /\ \/ req[r].pc = "end"
                   \/ /\ req[r].pc \in {"handler", "resetFind", "resetSave", "done"}
                      /\ req[r].ran \/ req[r].route = "unknown"
                      /\ isSeeded)
    /\ [][\A r \in Reqs :
            /\ (~req[r].seedErr /\ req'[r].seedErr)
                  => (cachedDb' = cachedDb /\ req'[r].pc = "end")
            /\ (req[r].seedErr /\ req[r].pc = "end" /\ req'[r].pc # "end")
                  => /\ cachedDb' = cachedDb
                     /\ isSeeded'
                     /\ req'[r] = Dispatch(req[r])]_vars

\* C6 witness: an update request whose seedAuth run threw has been answered by
\* its route handler
C6_Witness ==
    \E r \in Reqs :
        /\ req[r].seedErr
        /\ req[r].route = "update"
        /\ req[r].pc = "done"
        /\ req[r].status = 200

\* C7: isSeeded is false as long as no connection attempt has succeeded, and
\* once true it stays true.
C7_SeededMonotone ==
    /\ [](~everConnected => ~isSeeded)
    /\ [][isSeeded => isSeeded']_vars

\* C7 witness: isSeeded is true although the connection is lost and a failed
\* reconnection has cleared cachedDb
C7_Witness ==
    /\ isSeeded
    /\ ~cachedDb
    /\ readyState = Disconnected
    /\ \E r \in Reqs : req[r].gate = "fail"

\* C8 as stated: at most one connection attempt is pending at any time.
C8_OneAttemptInFlight ==
    Cardinality({r \in Reqs : req[r].pc = "connecting"}) <= 1

\* C9 as stated: the health check is always answered 200 with status 'ok'.
C9_HealthAlwaysOk ==
    \A r \in Reqs :
        (req[r].route = "health" /\ req[r].pc = "done")
            => (req[r].status = 200 /\ req[r].body = "status ok")

\* C10 as stated: in both variants every connection attempt is started by the
\* arrival of a request (none by a timer or spontaneously).
C10_AttemptsOnlyByRequests ==
    [][(BootAttemptStarts \/ \E r \in Reqs : AttemptStarts(r))
          => \E r \in Reqs : Arrives(r) /\ AttemptStarts(r)]_vars

\* C10 amended: in the serverless variant every connection attempt is started
\* by the arrival of a request, one attempt at most per arrival; after a failed
\* attempt nothing starts another one.
C10_ServerlessAttemptsOnlyByRequests ==
    [][variant = "serverless" =>
          /\ ~BootAttemptStarts
          /\ \A r \in Reqs : AttemptStarts(r) => Arrives(r)]_vars

\* C10 witness: a connection attempt of the serverless variant has failed and
\* no attempt is pending
C10_Witness ==
    /\ variant = "serverless"
    /\ \E r \in Reqs : req[r].gate = "fail" /\ req[r].pc = "done"
    /\ \A r \in Reqs : req[r].pc # "connecting"

\* C11 as stated: when the connection attempt of a serverless connectDB call
\* fails, the call leaves cachedDb unset and the state not ready, and the error
\* string the gate puts into the 503 body carries the cause of the failure.
C11_FailureCarriesCause ==
    [][\A r \in Reqs :
          (variant = "serverless" /\ req[r].pc = "connecting"
                                  /\ req'[r].gate = "fail")
              => /\ ~cachedDb'
                 /\ ~IsCached(cachedDb', readyState')
                 /\ req'[r].status = 503
                 /\ req'[r].error = req'[r].cause]_vars

\* C12 as stated: a request to an /api path that matches no route is answered
\* 404 { error: 'API Endpoint Not Found' } in every connection state.
C12_UnknownAlways404 ==
    \A r \in Reqs :
        (req[r].route = "unknown" /\ req[r].pc = "done")
            => (req[r].status = 404 /\ req[r].error = "API Endpoint Not Found")

\* C12 amended: a request to an /api path that matches no route is answered
\* 404 { error: 'API Endpoint Not Found' } when the gate lets it through, and
\* 503 when the gate turns it down; no route handler runs for it.
C12_UnknownPastGate404 ==
    \A r \in Reqs :
        (req[r].route = "unknown" /\ req[r].pc = "done")
            => /\ ~req[r].ran
               /\ req[r].body = "error"
               /\ IF req[r].gate \in {"fail", "closed"}
                  THEN req[r].status = 503
                  ELSE /\ req[r].status = 404
                       /\ req[r].error = "API Endpoint Not Found"

\* C12 witness: with the store unreachable, a request to an unknown path has
\* been let through by the gate and answered 404
C12_Witness ==
    /\ ~storeUp
    /\ \E r \in Reqs :
          /\ req[r].route = "unknown"
          /\ req[r].gate \in {"fast", "open"}
          /\ req[r].status = 404
          /\ req[r].error = "API Endpoint Not Found"

\* C13 as stated: in the serverless variant seedAuth is started at most once
\* in the process lifetime, also when requests overlap during a cold start.
C13_SeedStartedOnceConcurrent ==
    variant = "serverless" => seedStarts <= 1

\* C14 as stated: the collection never holds more than one Auth record for a
\* role (it starts with at most one per role).
C14_OneRecordPerRole ==
    \A role \in RoleSet : Len(auth[role]) <= 1

\* C15 as stated: no route handler has started for any request before the
\* seeding run of the process has finished.
C15_HandlersAfterSeeding ==
    \A r \in Reqs :
        req[r].ran =>
            IF variant = "serverless" THEN isSeeded ELSE bg.pc = "end"

\* the positions of a seedAuth run that is waiting for a query
SeedPcs == {"findOne", "create"}

\* C16 as stated: partial seeding is permanent.  While the request whose
\* seedAuth run threw is on record, a role that has no record gets none, and
\* the throwing step itself changes no record and ends the run.
C16_MissingStayMissing ==
    [][\A r \in Reqs :
          /\ (req[r].pc \in SeedPcs /\ req'[r].seedErr)
                => (auth' = auth /\ req'[r].pc \notin SeedPcs)
          /\ req[r].seedErr
                => \A role \in RoleSet : auth[role] = <<>> => auth'[role] = <<>>]_vars

\* The part of C16 that holds under every interleaving.  The step in which a
\* seedAuth query throws changes no record and ends that run (no check or
\* create follows in it), and isSeeded is true once connectDB has resumed,
\* which it does before another request is taken; records are never removed;
\* seedAuth is started only while isSeeded is false (serverless) or before the
\* one start-up run (long-running), isSeeded never goes back to false and an
\* ended start-up run stays ended, so no request that arrives after the throw
\* runs it again; and records are added only by the create step of a seedAuth
\* run.
PartialSeedingNotRepaired ==
    /\ [][\A r \in Reqs :
            (req[r].pc \in SeedPcs /\ req'[r].seedErr)
                => /\ auth' = auth
                   /\ req'[r].pc = "end"]_vars
    /\ [][\A r \in Reqs :
            /\ (req[r].pc = "end" /\ req'[r].pc # "end") => isSeeded'
            /\ (req[r].pc = "end" /\ Arrives(r)) => FALSE
            /\ Resuming => \A s \in Reqs : ~Arrives(s)]_vars
    /\ [][(bg.pc \in SeedPcs /\ bg'.pc = "end" /\ ~storeUp) => auth' = auth]_vars
    /\ [][\A role \in RoleSet : Len(auth'[role]) >= Len(auth[role])]_vars
    /\ [][seedStarts' # seedStarts =>
            IF variant = "serverless" THEN ~isSeeded ELSE bg.pc = "none"]_vars
    /\ [][(isSeeded => isSeeded') /\ (bg.pc = "end" => bg'.pc = "end")]_vars
    /\ [][(\E role \in RoleSet : Len(auth'[role]) > Len(auth[role]))
            => \/ \E r \in Reqs : req[r].pc = "create"
               \/ bg.pc = "create"]_vars

\* the only seedAuth run threw after it had created the admin record; a later
\* request has connected anew and been answered, and user and assistant still
\* have no record
PartialSeedingReached ==
    /\ seedStarts = 1
    /\ auth["admin"] = << <<"Raiha Iman", "admin">> >>
    /\ auth["user"] = <<>>
    /\ auth["assistant"] = <<>>
    /\ \E r, l \in Reqs :
          /\ req[r].seedErr
          /\ req[l].gate = "ok"
          /\ req[l].pc = "done"

\* C17: in the long-running variant isDbConnected is false until the first
\* connection attempt has succeeded, becomes false with every "disconnected"
\* and true with every "reconnected" notification and changes at no other
\* time, and the gate answers 503 { error: 'Database disconnected' } exactly
\* when it is false as the request arrives and calls next() otherwise.
C17_FlagTracksNotifications ==
    /\ []((variant = "longrunning" /\ ~everConnected) => ~isDbConnected)
    /\ [][variant = "longrunning" =>
            /\ (readyState = Connected /\ readyState' = Disconnected)
                  => ~isDbConnected'
            /\ (readyState = Disconnected /\ readyState' = Connected)
                  => isDbConnected'
            /\ isDbConnected' # isDbConnected => readyState' # readyState
            /\ \A r \in Reqs :
                  Arrives(r) =>
                     LET q0 == [Idle EXCEPT !.route = req'[r].route]
                     IN  IF isDbConnected
                         THEN req'[r] = Dispatch([q0 EXCEPT !.gate = "open"])
                         ELSE /\ req'[r].pc = "done"
                              /\ req'[r].status = 503
                              /\ req'[r].body = "error"
                              /\ req'[r].error = "Database disconnected"
                              /\ ~req'[r].ran]_vars

\* C17 witness: after a "disconnected" notification isDbConnected is false
\* and a request has been answered 503 { error: 'Database disconnected' }
C17_Witness ==
    /\ variant = "longrunning"
    /\ everConnected
    /\ readyState = Disconnected
    /\ ~isDbConnected
    /\ \E r \in Reqs :
          /\ req[r].gate = "closed"
          /\ req[r].status = 503
          /\ req[r].error = "Database disconnected"

----------------------------------------------------------------------------
(* The long-running variant with the scheduling the runtime guarantees: a
   timer that is due fires, a connection attempt on a reachable store
   resolves, and the driver re-establishes a lost connection by itself once
   the store is reachable (what the 'reconnected' handler relies on) *)

LiveInit == Init /\ variant = "longrunning"

LiveNext ==
    \/ \E r \in Reqs, route \in Routes : LArrive(r, route)
    \/ \E r \in Reqs : Handlers(r)
    \/ \E r \in Reqs : Reply(r)
    \/ LongRunning
    \/ Environment

LiveSpec ==
    /\ LiveInit
    /\ [][LiveNext]_vars
    /\ WF_vars(LTimer)
    /\ WF_vars(LConnectResolve)
    /\ WF_vars(NotifyReconnected)

\* C18: in the long-running variant, if the store is reachable from some
\* point on, then from some point on the start-up chain has connected (through
\* the retry timer when earlier attempts failed), isDbConnected is true, so
\* the gate rejects no request, and seedAuth has been started once; a chain
\* that has connected stays so: no timer-driven attempt follows a success.
C18_RetryEventuallyConnects ==
    /\ (<>[]storeUp) =>
          <>[](isDbConnected /\ boot.pc = "up" /\ seedStarts = 1)
    /\ [][boot.pc = "up" => boot'.pc = "up"]_vars

\* C18 witness: the first attempt failed, the timer ran connectDB again, and
\* that attempt connected and started seedAuth
C18_Witness ==
    /\ boot = [pc |-> "up", retried |-> TRUE]
    /\ isDbConnected
    /\ seedStarts = 1
    /\ storeUp

====
